---- MODULE Spec2Model ----
(***************************************************************************)
(* Model of src/src/index.js (node-zint / symbology wrapper): the option   *)
(* defaulting (validateSymbol), the marshalling of the native call         *)
(* (createSymbology, callManagedLibrary), the two exported operations      *)
(* createStream and createFile with their promise callbacks, the PNG       *)
(* encoder stream (blobToBase64Png) and the raster loop (pngRender).       *)
(*                                                                         *)
(* JavaScript values are records [t, n, s]: t is the type tag, n the       *)
(* number (or 1/0 of a boolean), s the characters of a string, one         *)
(* one-character string per element.                                       *)
(***************************************************************************)
EXTENDS Integers, Sequences, FiniteSets, TLC

\* ------------------------------------------------------------- bounds
MaxCalls == 2
MaxEdits == 1
MaxChunks == 1
MaxDim == 3
MaxSeed == 3

\* ------------------------------------------------------- JS values
NoProp == [t |-> "none", n |-> 0, s |-> <<>>]
Undef == [t |-> "undef", n |-> 0, s |-> <<>>]
NaN == [t |-> "nan", n |-> 0, s |-> <<>>]
Num(n) == [t |-> "num", n |-> n, s |-> <<>>]
Str(s) == [t |-> "str", n |-> 0, s |-> s]
Bool(b) == [t |-> "bool", n |-> IF b THEN 1 ELSE 0, s |-> <<>>]

DigitChars == <<"0", "1", "2", "3", "4", "5", "6", "7", "8", "9">>
UpperChars == <<"A", "B", "C", "D", "E", "F", "G", "H", "I", "J", "K", "L", "M",
                "N", "O", "P", "Q", "R", "S", "T", "U", "V", "W", "X", "Y", "Z">>
LowerChars == <<"a", "b", "c", "d", "e", "f", "g", "h", "i", "j", "k", "l", "m",
                "n", "o", "p", "q", "r", "s", "t", "u", "v", "w", "x", "y", "z">>

Range(f) == {f[i] : i \in DOMAIN f}
IsDigit(c) == c \in Range(DigitChars)
IsUpper(c) == c \in Range(UpperChars)
IsLower(c) == c \in Range(LowerChars)
IsLetter(c) == IsUpper(c) \/ IsLower(c)
DigitVal(c) == (CHOOSE i \in DOMAIN DigitChars : DigitChars[i] = c) - 1

\* String.prototype.toLowerCase, one character
LowerChar(c) ==
  IF IsUpper(c) THEN LowerChars[CHOOSE i \in DOMAIN UpperChars : UpperChars[i] = c] ELSE c
toLowerCase(s) == [i \in DOMAIN s |-> LowerChar(s[i])]

\* the decimal digits of a natural number, as String(n) writes them
RECURSIVE NatToChars(_)
NatToChars(n) ==
  IF n < 10 THEN <<DigitChars[n + 1]>>
  ELSE NatToChars(n \div 10) \o <<DigitChars[(n % 10) + 1]>>
ToStringChars(v) ==
  IF v.t = "str" THEN v.s
  ELSE IF v.t = "num" THEN (IF v.n < 0 THEN <<"-">> \o NatToChars(-v.n) ELSE NatToChars(v.n))
  ELSE IF v.t = "undef" \/ v.t = "none" THEN <<"u", "n", "d", "e", "f", "i", "n", "e", "d">>
  ELSE <<"N", "a", "N">>

\* the value of the longest prefix of decimal digits of s, acc carried
RECURSIVE DigitPrefix(_, _, _)
DigitPrefix(s, i, acc) ==
  IF i > Len(s) \/ ~IsDigit(s[i]) THEN acc
  ELSE DigitPrefix(s, i + 1, acc * 10 + DigitVal(s[i]))

\* parseInt(v, 10): the argument is turned into a string, an optional sign
\* is read, then the longest run of digits; no digit gives NaN
parseInt(v) ==
  LET s == ToStringChars(v)
      neg == Len(s) >= 1 /\ s[1] = "-"
      start == IF Len(s) >= 1 /\ (s[1] = "-" \/ s[1] = "+") THEN 2 ELSE 1
  IN IF start > Len(s) \/ ~IsDigit(s[start]) THEN NaN
     ELSE Num((IF neg THEN -1 ELSE 1) * DigitPrefix(s, start, 0))

\* a > b for the number b; NaN compares false
JSGreater(a, b) == a.t = "num" /\ a.n > b

\* a + b of JavaScript: a string operand makes it a concatenation
JSAdd(a, b) ==
  IF a.t = "str" \/ b.t = "str" THEN Str(ToStringChars(a) \o ToStringChars(b))
  ELSE IF a.t = "num" /\ b.t = "num" THEN Num(a.n + b.n)
  ELSE IF a.t = "bool" /\ b.t = "num" THEN Num(a.n + b.n)
  ELSE NaN

\* truthiness, as the ?: and || operators test it
Truthy(v) ==
  \/ v.t = "bool" /\ v.n = 1
  \/ v.t = "num" /\ v.n # 0
  \/ v.t = "str" /\ v.s # <<>>

\* ------------------------------------------------------ strings used
Chars_png == <<"p", "n", "g">>
Chars_svg == <<"s", "v", "g">>
Chars_eps == <<"e", "p", "s">>
Chars_gif == <<"g", "i", "f">>
Chars_out == <<"o", "u", "t", ".">>

\* exp.Output: the output types the wrapper accepts
Output == [PNG |-> Str(Chars_png), SVG |-> Str(Chars_svg), EPS |-> Str(Chars_eps)]
OutputValues == {Output.PNG, Output.SVG, Output.EPS}

\* exp.Encoding.DATA_MODE: a value of the Encoding enumeration, passed on
\* as it is
DATA_MODE == [t |-> "enum", n |-> 0, s |-> <<"DATA_MODE">>]

\* ------------------------------------------------- the Symbol struct
Keys == {"symbology", "height", "whitespaceWidth", "borderWidth", "outputOptions",
         "foregroundColor", "backgroundColor", "fileName", "scale", "option1",
         "option2", "option3", "showHumanReadableText", "encoding", "eci", "primary"}
\* text is read by createSymbology and has no default
AllKeys == Keys \cup {"text"}

defaultSymbolInit ==
  [k \in Keys |->
     CASE k = "symbology" -> Num(20)
       [] k = "height" -> Num(50)
       [] k = "whitespaceWidth" -> Num(0)
       [] k = "borderWidth" -> Num(0)
       [] k = "outputOptions" -> Num(-1)
       [] k = "foregroundColor" -> Str(<<"0", "0", "0", "0", "0", "0">>)
       [] k = "backgroundColor" -> Str(<<"f", "f", "f", "f", "f", "f">>)
       [] k = "fileName" -> Str(Chars_out \o <<"b", "m", "p">>)
       [] k = "scale" -> Num(1)
       [] k = "option1" -> Num(-1)
       [] k = "option2" -> Num(-1)
       [] k = "option3" -> Num(-1)
       [] k = "showHumanReadableText" -> Bool(TRUE)
       [] k = "encoding" -> DATA_MODE
       [] k = "eci" -> Num(0)
       [] k = "primary" -> Str(<<>>)]

\* symbologyStruct.hasOwnProperty(key)
hasOwnProperty(obj, key) == obj[key] # NoProp

\* a validateSymbol that assigns every default, whatever the caller gave
validateSymbolOverwrite(symbologyStruct, defaults) ==
  [k \in AllKeys |-> IF k \in Keys THEN defaults[k] ELSE symbologyStruct[k]]

\* validateSymbol: the struct after the loop over Object.keys(defaultSymbol)
validateSymbol(symbologyStruct, defaults) ==
  [k \in AllKeys |->
     IF k \in Keys /\ ~hasOwnProperty(symbologyStruct, k)
     THEN defaults[k] ELSE symbologyStruct[k]]

\* s ends with the characters suf
EndsWith(s, suf) ==
  Len(s) >= Len(suf) /\ SubSeq(s, Len(s) - Len(suf) + 1, Len(s)) = suf

\* fileName.replace(/\.png$/g, '.bmp'); a non-string has no replace method:
\* the callers below never reach this with one
replacePngBmp(v) ==
  IF v.t = "str" /\ EndsWith(v.s, <<".">> \o Chars_png)
  THEN Str(SubSeq(v.s, 1, Len(v.s) - 3) \o <<"b", "m", "p">>)
  ELSE v

\* the argument list createSymbology hands to symbology[fnName]
NativeArgs(st, barcodeData) ==
  [barcodeData |-> barcodeData,
   symbology |-> st["symbology"],
   height |-> st["height"],
   whitespaceWidth |-> st["whitespaceWidth"],
   borderWidth |-> st["borderWidth"],
   outputOptions |-> st["outputOptions"],
   backgroundColor |-> st["backgroundColor"],
   foregroundColor |-> st["foregroundColor"],
   fileName |-> replacePngBmp(st["fileName"]),
   scale |-> st["scale"],
   option1 |-> st["option1"],
   option2 |-> st["option2"],
   option3 |-> st["option3"],
   showHumanReadableText |-> IF Truthy(st["showHumanReadableText"]) THEN Num(1) ELSE Num(0),
   text |-> IF Truthy(st["text"]) THEN st["text"] ELSE barcodeData,
   encoding |-> st["encoding"],
   eci |-> st["eci"],
   primary |-> st["primary"]]

\* an output type that passes every check
outputTypeAlwaysValid(outputType) == TRUE

\* Object.values(exp.Output).includes(outputType)
outputTypeValid(outputType) == outputType \in OutputValues

\* callManagedLibrary, lines 160-168: what it writes into the caller's
\* symbol before the native call
prepareSymbol(symbol_, outputType) ==
  IF outputType # Output.PNG
  THEN [symbol_ EXCEPT
          !["fileName"] = Str(Chars_out \o ToStringChars(outputType)),
          !["outputOptions"] =
             IF JSGreater(parseInt(symbol_["outputOptions"]), 0)
             THEN JSAdd(symbol_["outputOptions"], Num(8))
             ELSE Num(8)]
  ELSE symbol_

\* the number of letters that end s
RECURSIVE TrailingLetters(_)
TrailingLetters(s) ==
  IF s = <<>> \/ ~IsLetter(s[Len(s)]) THEN 0
  ELSE 1 + TrailingLetters(SubSeq(s, 1, Len(s) - 1))

\* fileName.match(/\.([a-z]+)$/i): the captured group, <<>> for no match
\* (null). The letters that end the name must follow a dot.
matchExtension(s) ==
  LET k == TrailingLetters(s)
  IN IF k >= 1 /\ Len(s) > k /\ s[Len(s) - k] = "."
     THEN SubSeq(s, Len(s) - k + 1, Len(s)) ELSE <<>>

\* createFile, lines 227-231: TRUE when the try block throws
extensionThrows(fileName) ==
  fileName.t # "str" \/ matchExtension(fileName.s) = <<>>

\* createFile, line 228: the output type taken from the file name
extensionOf(fileName) == Str(toLowerCase(matchExtension(fileName.s)))

\* a success test that lets code 3 through
resultOkOffByOne(res) == res.code <= 3

\* callManagedLibrary, line 172
resultOk(res) == res.code <= 2

\* ---------------------------------------------------------- pngRender
\* PNGImage.createImage(width, height): every pixel transparent black;
\* sets counts the setAt calls on the pixel
BlankPixel == [red |-> 0, green |-> 0, blue |-> 0, alpha |-> 0, sets |-> 0]

\* bitmap[i] of JavaScript (0-based); -1 stands for undefined, past the end
ReadAt(bitmap, i) == IF i < Len(bitmap) THEN bitmap[i + 1] ELSE -1

\* the loop state of pngRender before its first test
renderStart(bitmap, width, height) ==
  [bitmap |-> bitmap, width |-> width, height |-> height,
   y |-> 0, x |-> 0, i |-> 0,
   pixels |-> [p \in 1..(width * height) |-> BlankPixel],
   maxRead |-> -1,
   pc |-> IF 0 < height THEN "inner" ELSE "done"]

\* a loop body that advances i by 4, as for an RGBA source
renderStepStride4(st) ==
  IF st.pc = "done" THEN st
  ELSE IF st.x < st.width
  THEN [st EXCEPT
          !.pixels[st.y * st.width + st.x + 1] =
             [red |-> ReadAt(st.bitmap, st.i),
              green |-> ReadAt(st.bitmap, st.i + 1),
              blue |-> ReadAt(st.bitmap, st.i + 2),
              alpha |-> 200,
              sets |-> @.sets + 1],
          !.maxRead = st.i + 2,
          !.i = st.i + 4,
          !.x = st.x + 1]
  ELSE [st EXCEPT !.y = st.y + 1, !.x = 0,
                  !.pc = IF st.y + 1 < st.height THEN "inner" ELSE "done"]

\* one test of the inner loop: the body image.setAt(x, y, ...) with i += 3
\* and x++, or the end of the row with y++ and the test of the outer loop.
\* setAt(x, y) addresses pixel y * width + x of the image.
renderStep(st) ==
  IF st.pc = "done" THEN st
  ELSE IF st.x < st.width
  THEN [st EXCEPT
          !.pixels[st.y * st.width + st.x + 1] =
             [red |-> ReadAt(st.bitmap, st.i),
              green |-> ReadAt(st.bitmap, st.i + 1),
              blue |-> ReadAt(st.bitmap, st.i + 2),
              alpha |-> 200,
              sets |-> @.sets + 1],
          !.maxRead = st.i + 2,
          !.i = st.i + 3,
          !.x = st.x + 1]
  ELSE [st EXCEPT !.y = st.y + 1, !.x = 0,
                  !.pc = IF st.y + 1 < st.height THEN "inner" ELSE "done"]

RECURSIVE renderRun(_)
renderRun(st) == IF st.pc = "done" THEN st ELSE renderRun(renderStep(st))

\* pngRender(bitmap, width, height): the image it returns
pngRender(bitmap, width, height) ==
  LET st == renderRun(renderStart(bitmap, width, height))
  IN [width |-> width, height |-> height, pixels |-> st.pixels]

NoImage == [width |-> 0, height |-> 0, pixels |-> <<>>]

\* a buffer holding a raster of width * height pixels, and pad more bytes,
\* whose bytes all differ
Raster(width, height, seed, pad) ==
  [k \in 1..(3 * width * height + pad) |-> (seed + 37 * (k - 1)) % 256]

\* -------------------------------------------------------------- state
VARIABLES
  symbol,         \* the caller's symbol object, shared by its calls
  defaultSymbol,  \* the module's defaultSymbol object
  calls,          \* one record per createStream / createFile call, in order
  files,          \* what fs.writeFileSync and image.writeImage have written
  epoch,          \* how often the caller has assigned symbol.fileName
  rs              \* the loop state of a pngRender run on its own

vars == <<symbol, defaultSymbol, calls, files, epoch, rs>>

\* ----------------------------------------------- the native library
\* symbology.createStream is outside the wrapper: any result code, a
\* raster for PNG, the rendered text for SVG and EPS
ResultCodes == {2, 3}
MessageOf(code) == IF code = 0 THEN "" ELSE IF code <= 2 THEN "warning" ELSE "error"

NativeResults(outputType) ==
  {[code |-> c, message |-> MessageOf(c),
    width |-> IF c <= 2 THEN 2 ELSE 0,
    height |-> IF c <= 2 THEN 1 ELSE 0,
    encodedData |-> IF c > 2 THEN <<>>
                    ELSE IF outputType = Output.PNG THEN Raster(2, 1, 0, 0)
                    ELSE <<60, 115, 62>>] : c \in ResultCodes}

NoResult == [code |-> -1, message |-> "", width |-> 0, height |-> 0, encodedData |-> <<>>]
NoArgs == NativeArgs([k \in AllKeys |-> NoProp], NoProp)

\* ------------------------------------------------- promise outcomes
NoData == [enc |-> "none", prefix |-> "", bytes |-> <<>>]
RawData(bytes) == [enc |-> "raw", prefix |-> "", bytes |-> bytes]
NoValue == [kind |-> "none", keys |-> {}, code |-> -1, message |-> "",
            width |-> 0, height |-> 0, data |-> NoData]

\* callManagedLibrary, lines 173-179
resolvedRecord(res) ==
  [kind |-> "result", keys |-> {"data", "message", "code", "width", "height"},
   code |-> res.code, message |-> res.message,
   width |-> res.width, height |-> res.height, data |-> RawData(res.encodedData)]

\* callManagedLibrary, lines 181-184
rejectedRecord(res) ==
  [kind |-> "result", keys |-> {"message", "code"},
   code |-> res.code, message |-> res.message,
   width |-> 0, height |-> 0, data |-> NoData]

\* createStream, lines 203-209: the record around the base64 string
streamRecord(res, chunks) ==
  [kind |-> "result", keys |-> {"data", "width", "height", "message", "code"},
   code |-> res.code, message |-> res.message,
   width |-> res.width, height |-> res.height,
   data |-> [enc |-> "base64", prefix |-> "data:image/png;base64,", bytes |-> chunks]]

\* delete res.data
deleteData(v) == [v EXCEPT !.keys = @ \ {"data"}, !.data = NoData]

\* the err of a failed write
IoError == [kind |-> "ioerror", keys |-> {"errno"}, code |-> -1, message |-> "",
            width |-> 0, height |-> 0, data |-> NoData]

\* ---------------------------------------------------- caller inputs
Name(base, ext) == Str(<<base, ".">> \o ext)
FileNames ==
  {NoProp, Name("a", Chars_png), Name("a", Chars_svg), Name("a", Chars_eps),
   Name("a", <<"P", "N", "G">>), Name("a", Chars_gif), Str(<<"a">>),
   Name("a", <<"m", "p", "3">>)}
EditNames == {Name("b", Chars_png)}
OutputOptionValues == {Undef, Num(-1), Num(0), Num(1), Str(<<"1">>)}
ColourValues ==
  {Str(<<"F", "F", "0", "0", "a", "a">>), Str(<<"z", "z", "z">>),
   Str(<<"1", "2", "3", "4", "5">>)}
StreamTypes == {Output.PNG, Output.SVG, Str(Chars_gif)}
DataValues == {Str(<<"1", "2">>)}

\* what a caller may give for a key
CallerValue(k) ==
  CASE k = "showHumanReadableText" -> Bool(FALSE)
    [] k = "primary" -> Str(<<"p">>)
    [] k = "text" -> Str(<<"t">>)
    [] k \in {"foregroundColor", "backgroundColor"} -> Str(<<"0", "0", "f", "f", "0", "0">>)
    [] k = "fileName" -> Name("c", Chars_png)
    [] OTHER -> Num(7)

EmptySymbol == [k \in AllKeys |-> NoProp]
GivenKeys(given) == [k \in AllKeys |-> IF k \in given THEN CallerValue(k) ELSE NoProp]
KeyPatterns ==
  {{}, AllKeys, {"outputOptions", "text"},
   {"symbology", "whitespaceWidth", "outputOptions", "backgroundColor", "scale",
    "option2", "showHumanReadableText", "eci"},
   {"height", "borderWidth", "foregroundColor", "fileName", "option1", "option3",
    "encoding", "primary"}}

InitSymbols ==
  {[EmptySymbol EXCEPT !["fileName"] = f] : f \in FileNames}
  \cup {[EmptySymbol EXCEPT !["fileName"] = f, !["outputOptions"] = o] :
          f \in {Name("a", Chars_png), Name("a", Chars_svg)}, o \in OutputOptionValues}
  \cup {[EmptySymbol EXCEPT !["fileName"] = Name("a", Chars_png), !["foregroundColor"] = c] :
          c \in ColourValues}
  \cup {[EmptySymbol EXCEPT !["fileName"] = Name("a", Chars_svg), !["backgroundColor"] = c] :
          c \in ColourValues}

NoRender == renderStart(<<>>, 0, 0)

\* the state after the module is loaded, the caller holding a symbol of S
InitWith(S) ==
  /\ symbol \in S
  /\ defaultSymbol = defaultSymbolInit
  /\ calls = <<>>
  /\ files = {}
  /\ epoch = 0
  /\ rs = NoRender

Init == InitWith(InitSymbols)

\* -------------------------------------------------------- operations
Settled(c) == c.phase \in {"resolved", "rejected"}

\* the earlier calls whose promise has not settled
Unsettled == {j \in DOMAIN calls : calls[j].reached /\ ~Settled(calls[j])}

\* the record of a call that threw before the native call
ThrownCall(api, outputType, barcodeData) ==
  [api |-> api, outputType |-> outputType, barcodeData |-> barcodeData,
   symAtCall |-> symbol, symAtValidate |-> symbol, symAfter |-> symbol,
   epochAtCall |-> epoch, unsettledBefore |-> Unsettled, reached |-> FALSE, args |-> NoArgs, res |-> NoResult,
   phase |-> "threw", value |-> NoValue, chunks |-> <<>>,
   path |-> NoProp, pathEpoch |-> 0, image |-> NoImage]

\* callManagedLibrary(symbol, barcodeData, outputType): the check of the
\* output type, the writes into the symbol, createSymbology (validateSymbol
\* and the native call) and the promise it returns, whose then-callback
\* the exported function queues
callManagedLibrary(api, barcodeData, outputType) ==
  IF ~outputTypeValid(outputType)
  THEN /\ calls' = Append(calls, ThrownCall(api, outputType, barcodeData))
       /\ UNCHANGED <<symbol, defaultSymbol>>
  ELSE LET prepared == prepareSymbol(symbol, outputType)
           validated == validateSymbol(prepared, defaultSymbol)
       IN \E res \in NativeResults(outputType) :
            /\ symbol' = validated
            /\ defaultSymbol' = defaultSymbol
            /\ calls' = Append(calls,
                 [api |-> api, outputType |-> outputType, barcodeData |-> barcodeData,
                  symAtCall |-> symbol, symAtValidate |-> prepared, symAfter |-> validated,
                  epochAtCall |-> epoch, unsettledBefore |-> Unsettled, reached |-> TRUE,
                  args |-> NativeArgs(validated, barcodeData), res |-> res,
                  phase |-> "then", value |-> NoValue, chunks |-> <<>>,
                  path |-> NoProp, pathEpoch |-> 0, image |-> NoImage])

\* exp.createStream(symbol, barcodeData, outputType), up to its return
CreateStream(barcodeData, outputType) ==
  /\ Len(calls) < MaxCalls
  /\ callManagedLibrary("createStream", barcodeData, outputType)
  /\ UNCHANGED <<files, epoch, rs>>

\* exp.createFile(symbol, barcodeData), up to its return
CreateFile(barcodeData) ==
  /\ Len(calls) < MaxCalls
  /\ IF extensionThrows(symbol["fileName"])
     THEN /\ calls' = Append(calls, ThrownCall("createFile", NoProp, barcodeData))
          /\ UNCHANGED <<symbol, defaultSymbol>>
     ELSE callManagedLibrary("createFile", barcodeData, extensionOf(symbol["fileName"]))
  /\ UNCHANGED <<files, epoch, rs>>

\* the caller assigns symbol.fileName between two calls (before the first
\* call it only makes another initial symbol)
CallerSetFileName(f) ==
  /\ epoch < MaxEdits
  /\ 0 < Len(calls) /\ Len(calls) < MaxCalls
  /\ symbol' = [symbol EXCEPT !["fileName"] = f]
  /\ epoch' = epoch + 1
  /\ UNCHANGED <<defaultSymbol, calls, files, rs>>

\* promise callbacks run in the order they were queued
FirstQueued(i) ==
  /\ i \in DOMAIN calls
  /\ calls[i].phase = "then"
  /\ \A j \in 1..(i - 1) : calls[j].phase # "then"

\* the then-callback of a call whose native code was >= 3 is skipped:
\* the promise rejects with callManagedLibrary's record
ThenRejected(i) ==
  /\ FirstQueued(i)
  /\ ~resultOk(calls[i].res)
  /\ calls' = [calls EXCEPT ![i].phase = "rejected",
                            ![i].value = rejectedRecord(calls[i].res)]
  /\ UNCHANGED <<symbol, defaultSymbol, files, epoch, rs>>

\* createStream, lines 197-213
StreamThen(i) ==
  /\ FirstQueued(i)
  /\ calls[i].api = "createStream"
  /\ resultOk(calls[i].res)
  /\ LET res == calls[i].res
     IN IF calls[i].outputType = Output.PNG
        THEN calls' = [calls EXCEPT
                         ![i].phase = "packing",
                         ![i].image = pngRender(res.encodedData, res.width, res.height)]
        ELSE calls' = [calls EXCEPT ![i].phase = "resolved",
                                    ![i].value = resolvedRecord(res)]
  /\ UNCHANGED <<symbol, defaultSymbol, files, epoch, rs>>

\* createFile, lines 234-256; fs.writeFileSync writes or throws
FileThen(i) ==
  /\ FirstQueued(i)
  /\ calls[i].api = "createFile"
  /\ resultOk(calls[i].res)
  /\ LET res == calls[i].res
     IN IF calls[i].outputType = Output.PNG
        THEN /\ calls' = [calls EXCEPT
                            ![i].phase = "writing",
                            ![i].image = pngRender(res.encodedData, res.width, res.height),
                            ![i].path = symbol["fileName"],
                            ![i].pathEpoch = epoch]
             /\ files' = files
        ELSE \E ok \in BOOLEAN :
               IF ok
               THEN /\ files' = files \cup {[path |-> symbol["fileName"], call |-> i,
                                             epoch |-> epoch, kind |-> "raw"]}
                    /\ calls' = [calls EXCEPT
                                   ![i].phase = "resolved",
                                   ![i].path = symbol["fileName"],
                                   ![i].pathEpoch = epoch,
                                   ![i].value = deleteData(resolvedRecord(res))]
               ELSE /\ files' = files
                    /\ calls' = [calls EXCEPT ![i].phase = "rejected",
                                              ![i].path = symbol["fileName"],
                                              ![i].pathEpoch = epoch,
                                              ![i].value = IoError]
  /\ UNCHANGED <<symbol, defaultSymbol, epoch, rs>>

\* blobToBase64Png, lines 105-107: a 'data' event carrying the next chunk
\* of the encoder's output
StreamData(i, chunk) ==
  /\ i \in DOMAIN calls
  /\ calls[i].phase = "packing"
  /\ Len(calls[i].chunks) < MaxChunks
  /\ calls' = [calls EXCEPT ![i].chunks = Append(@, chunk)]
  /\ UNCHANGED <<symbol, defaultSymbol, files, epoch, rs>>

\* blobToBase64Png, lines 108-111, and createStream, lines 202-210
StreamEnd(i) ==
  /\ i \in DOMAIN calls
  /\ calls[i].phase = "packing"
  /\ calls' = [calls EXCEPT ![i].phase = "resolved",
                            ![i].value = streamRecord(calls[i].res, calls[i].chunks)]
  /\ UNCHANGED <<symbol, defaultSymbol, files, epoch, rs>>

\* the stream emits 'error': blobToBase64Png listens to 'data' and 'end'
\* only, so neither resolve nor a reject is ever called
StreamError(i) ==
  /\ i \in DOMAIN calls
  /\ calls[i].phase = "packing"
  /\ calls' = [calls EXCEPT ![i].phase = "streamError"]
  /\ UNCHANGED <<symbol, defaultSymbol, files, epoch, rs>>

\* createFile, lines 239-247: the callback of image.writeImage
WriteDone(i) ==
  /\ i \in DOMAIN calls
  /\ calls[i].phase = "writing"
  /\ files' = files \cup {[path |-> calls[i].path, call |-> i,
                           epoch |-> calls[i].pathEpoch, kind |-> "png"]}
  /\ calls' = [calls EXCEPT ![i].phase = "resolved",
                            ![i].value = deleteData(resolvedRecord(calls[i].res))]
  /\ UNCHANGED <<symbol, defaultSymbol, epoch, rs>>

WriteFail(i) ==
  /\ i \in DOMAIN calls
  /\ calls[i].phase = "writing"
  /\ calls' = [calls EXCEPT ![i].phase = "rejected", ![i].value = IoError]
  /\ UNCHANGED <<symbol, defaultSymbol, files, epoch, rs>>

\* the callbacks that may still run
Progress ==
  \E i \in 1..MaxCalls :
    \/ ThenRejected(i)
    \/ StreamThen(i)
    \/ FileThen(i)
    \/ StreamData(i, Len(calls[i].chunks) + 1)
    \/ StreamEnd(i)
    \/ StreamError(i)
    \/ WriteDone(i)
    \/ WriteFail(i)

Next ==
  \/ \E d \in DataValues, ot \in StreamTypes : CreateStream(d, ot)
  \/ \E d \in DataValues : CreateFile(d)
  \/ \E f \in EditNames : CallerSetFileName(f)
  \/ Progress

Spec == Init /\ [][Next]_vars

\* the same operations, from symbols that differ in the file name only
SpecNames ==
  InitWith({[EmptySymbol EXCEPT !["fileName"] = f] : f \in FileNames}) /\ [][Next]_vars

\* the same operations, from symbols that differ in the keys they hold
SpecDefaults == InitWith({GivenKeys(g) : g \in KeyPatterns}) /\ [][Next]_vars

\* the same operations, from a PNG and an SVG file name
SpecResults ==
  InitWith({[EmptySymbol EXCEPT !["fileName"] = f] :
              f \in {Name("a", Chars_png), Name("a", Chars_svg)}})
    /\ [][Next]_vars

\* pngRender on its own, one loop test per step
RenderInit ==
  /\ symbol = EmptySymbol
  /\ defaultSymbol = defaultSymbolInit
  /\ calls = <<>>
  /\ files = {}
  /\ epoch = 0
  /\ \E w \in 0..MaxDim, h \in 0..MaxDim, seed \in 0..MaxSeed, pad \in 0..1 :
       rs = renderStart(Raster(w, h, seed, pad), w, h)

RenderStep ==
  /\ rs.pc # "done"
  /\ rs' = renderStep(rs)
  /\ UNCHANGED <<symbol, defaultSymbol, calls, files, epoch>>

SpecRender == RenderInit /\ [][RenderStep]_vars

\* ------------------------------------------------------------- claims
FilesOf(i) == {f \in files : f.call = i}
ResultFields == {"code", "message", "width", "height"}

\* C1, as stated: a call that reached the native library and has settled
\* resolved with a record carrying the code, message, width and height when
\* the code is <= 2, and otherwise rejected with a record of message and
\* code only, nothing rendered and nothing written.
C1_SettlesByCode ==
  \A i \in DOMAIN calls :
    LET c == calls[i]
    IN c.reached /\ Settled(c) =>
         IF c.res.code <= 2
         THEN /\ c.phase = "resolved"
              /\ ResultFields \subseteq c.value.keys
              /\ c.value.code = c.res.code
         ELSE /\ c.phase = "rejected"
              /\ c.value.keys = {"message", "code"}

\* C1, amended: with a code <= 2 a promise that resolves carries the
\* native code, message, width and height, and one that rejects is a
\* createFile whose file write failed, rejecting with the writer's error;
\* with a code >= 3 the promise never resolves, it rejects with a record
\* of message and code only, no PNG is rendered and no file is written.
C1_SettlesByCodeOrWriteError ==
  \A i \in DOMAIN calls :
    LET c == calls[i]
    IN c.reached =>
         IF c.res.code <= 2
         THEN /\ c.phase = "resolved" =>
                   /\ c.value.kind = "result"
                   /\ ResultFields \subseteq c.value.keys
                   /\ c.value.code = c.res.code
                   /\ c.value.message = c.res.message
                   /\ c.value.width = c.res.width
                   /\ c.value.height = c.res.height
              /\ c.phase = "rejected" =>
                   c.api = "createFile" /\ c.value.kind = "ioerror"
         ELSE /\ c.phase \in {"then", "rejected"}
              /\ c.phase = "rejected" =>
                   /\ c.value.kind = "result"
                   /\ c.value.keys = {"message", "code"}
                   /\ c.value.code = c.res.code
                   /\ c.value.message = c.res.message
              /\ c.image = NoImage
              /\ FilesOf(i) = {}

\* C1 witness: one call rejected on code 3, another resolved on code 2
\* after writing its file
C1_Witness ==
  \E i, j \in DOMAIN calls :
    /\ calls[i].res.code = 3 /\ calls[i].phase = "rejected"
    /\ calls[j].res.code = 2 /\ calls[j].phase = "resolved"
    /\ calls[j].api = "createFile" /\ FilesOf(j) # {}

\* C2: a file written by createFile, the caller not having touched the
\* symbol since the call, is at the fileName the caller put in the symbol.
C2_WritesCallerPath ==
  \A f \in files :
    LET c == calls[f.call]
    IN f.epoch = c.epochAtCall => f.path = c.symAtCall["fileName"]

\* C3: two calls of the same operation with the same symbol object, data
\* and output type, the caller not having touched the symbol in between,
\* hand the native library the same argument list.
C3_RetrySameArguments ==
  \A i, j \in DOMAIN calls :
    LET a == calls[i]
        b == calls[j]
    IN (/\ i < j
        /\ a.reached /\ b.reached
        /\ a.api = b.api
        /\ a.barcodeData = b.barcodeData
        /\ a.outputType = b.outputType
        /\ a.epochAtCall = b.epochAtCall) => a.args = b.args

\* the default the claim gives for a key; it names no value for the
\* colours, fileName and encoding, taken here from the object as loaded
C4_Default(k) ==
  CASE k = "symbology" -> Num(20)
    [] k = "height" -> Num(50)
    [] k \in {"whitespaceWidth", "borderWidth", "eci"} -> Num(0)
    [] k \in {"outputOptions", "option1", "option2", "option3"} -> Num(-1)
    [] k = "scale" -> Num(1)
    [] k = "showHumanReadableText" -> Bool(TRUE)
    [] k = "primary" -> Str(<<>>)
    [] OTHER -> defaultSymbolInit[k]

C5_SupportedName(v) ==
  /\ v.t = "str"
  /\ Len(v.s) >= 4
  /\ v.s[Len(v.s) - 3] = "."
  /\ toLowerCase(SubSeq(v.s, Len(v.s) - 2, Len(v.s))) \in {Chars_png, Chars_svg, Chars_eps}

C5_Unsupported(c) ==
  IF c.api = "createStream"
  THEN c.outputType \notin {Str(Chars_png), Str(Chars_svg), Str(Chars_eps)}
  ELSE ~C5_SupportedName(c.symAtCall["fileName"])

\* C5: a createStream with an output type outside the Output values, and a
\* createFile whose fileName is missing or does not end in .png, .svg or
\* .eps, throws without a native call and without a file, and leaves
\* fileName and outputOptions of the symbol as they were.
C5_UnsupportedRefused ==
  \A i \in DOMAIN calls :
    LET c == calls[i]
    IN C5_Unsupported(c) =>
         /\ c.phase = "threw"
         /\ ~c.reached
         /\ c.args = NoArgs
         /\ FilesOf(i) = {}
         /\ (i = Len(calls) /\ epoch = c.epochAtCall) =>
              /\ symbol["fileName"] = c.symAtCall["fileName"]
              /\ symbol["outputOptions"] = c.symAtCall["outputOptions"]

\* C5 witness: a createFile refused for its .gif name and a createStream
\* refused for its output type
C5_Witness ==
  \E i, j \in DOMAIN calls :
    /\ calls[i].api = "createFile" /\ calls[i].phase = "threw"
    /\ calls[i].symAtCall["fileName"] = Name("a", Chars_gif)
    /\ calls[j].api = "createStream" /\ calls[j].phase = "threw"

HexChars == Range(DigitChars) \cup {"a", "b", "c", "d", "e", "f", "A", "B", "C", "D", "E", "F"}
IsHex6(v) == v.t = "str" /\ Len(v.s) = 6 /\ \A n \in 1..Len(v.s) : v.s[n] \in HexChars

\* C6: the native library is never invoked with a foreground or background
\* colour that is not 6 hex digits.
C6_ColoursValidated ==
  \A i \in DOMAIN calls :
    calls[i].reached =>
      IsHex6(calls[i].args.foregroundColor) /\ IsHex6(calls[i].args.backgroundColor)

\* C7: during pngRender no index at or beyond 3 * width * height is read,
\* and when it returns every pixel (x, y) has been set exactly once, to
\* the three bytes at 3 * (y * width + x) with alpha 200.
C7_RowMajorPassthrough ==
  /\ rs.maxRead < 3 * rs.width * rs.height
  /\ rs.pc = "done" =>
       \A x \in 0..(rs.width - 1), y \in 0..(rs.height - 1) :
         rs.pixels[y * rs.width + x + 1] =
           [red |-> rs.bitmap[3 * (y * rs.width + x) + 1],
            green |-> rs.bitmap[3 * (y * rs.width + x) + 2],
            blue |-> rs.bitmap[3 * (y * rs.width + x) + 3],
            alpha |-> 200,
            sets |-> 1]

\* C7 witness: a finished render of several rows and columns from a buffer
\* longer than the raster
C7_Witness ==
  /\ rs.pc = "done" /\ rs.width >= 2 /\ rs.height >= 2
  /\ Len(rs.bitmap) > 3 * rs.width * rs.height

\* C8: the outputOptions handed to the native library is, for svg and eps,
\* the caller's value plus 8 when that value parses to an integer above 0
\* and 8 otherwise, and for png the caller's value, or -1 without one.
C8_FlagArithmetic ==
  \A i \in DOMAIN calls :
    LET c == calls[i]
        given == c.symAtCall["outputOptions"]
        parsed == parseInt(given)
    IN c.reached =>
         c.args.outputOptions =
           IF c.outputType # Str(Chars_png)
           THEN (IF parsed.t = "num" /\ parsed.n > 0 THEN Num(parsed.n + 8) ELSE Num(8))
           ELSE (IF given = NoProp THEN Num(-1) ELSE given)

\* C9: of two PNG createFile calls on the symbol, the second made before
\* the first settled and after the caller changed fileName, each writes to
\* the fileName the symbol held when that call was made.
C9_NoInterference ==
  \A i, j \in DOMAIN calls :
    LET a == calls[i]
        b == calls[j]
    IN (/\ i < j
        /\ a.api = "createFile" /\ b.api = "createFile"
        /\ a.outputType = Output.PNG /\ b.outputType = Output.PNG
        /\ i \in b.unsettledBefore
        /\ a.epochAtCall < b.epochAtCall)
       => \A f \in FilesOf(i) \cup FilesOf(j) :
            f.path = calls[f.call].symAtCall["fileName"]

\* C10: when no callback remains to run, every promise of a call that
\* reached the native library has settled; and a PNG createStream that has
\* resolved carries the prefix and the chunks in the order of emission.
C10_EverySettles ==
  /\ ENABLED Progress \/ \A i \in DOMAIN calls : calls[i].reached => Settled(calls[i])
  /\ \A i \in DOMAIN calls :
       LET c == calls[i]
       IN (c.api = "createStream" /\ c.outputType = Output.PNG /\ c.phase = "resolved") =>
            /\ c.value.data.prefix = "data:image/png;base64,"
            /\ c.value.data.bytes = [n \in 1..Len(c.chunks) |-> n]

====
